---- MODULE Spec2Model ----
(***************************************************************************)
(* astrodendro/io/hdf5.py: the Newick topology parser (_parse_newick), the *)
(* label aggregation and tree construction of dendro_import_hdf5, and the  *)
(* export that writes the file the import reads.                           *)
(*                                                                         *)
(* A Python str is a sequence of one-character strings, indexed from 0 as  *)
(* in the source (Slice, Find).  A dict is a function whose DOMAIN is its  *)
(* key set; the identities of the model are single digits, for which a     *)
(* CPython 2 dict iterates in ascending key order (hash(i) = i).           *)
(***************************************************************************)
EXTENDS Integers, Sequences, FiniteSets, TLC

\* ------------------------------------------------------------------ bounds

\* Identities of the generated topologies and labels are 1..MaxId.
MaxId == 3

\* Nested collect() calls Python allows before "maximum recursion depth
\* exceeded" (sys.getrecursionlimit(), scaled down).
RecursionLimit == 6

\* ------------------------------------------------------------ Python str

Digits == {"0", "1", "2", "3", "4", "5", "6", "7", "8", "9"}

DigitVal(c) ==
    CASE c = "0" -> 0 [] c = "1" -> 1 [] c = "2" -> 2 [] c = "3" -> 3
      [] c = "4" -> 4 [] c = "5" -> 5 [] c = "6" -> 6 [] c = "7" -> 7
      [] c = "8" -> 8 [] c = "9" -> 9

DigitChar(n) ==
    CASE n = 0 -> "0" [] n = 1 -> "1" [] n = 2 -> "2" [] n = 3 -> "3"
      [] n = 4 -> "4" [] n = 5 -> "5" [] n = 6 -> "6" [] n = 7 -> "7"
      [] n = 8 -> "8" [] n = 9 -> "9"

Min(a, b) == IF a < b THEN a ELSE b

Max(a, b) == IF a > b THEN a ELSE b

\* s[a:b] for 0 <= a; a negative b counts from the end, as Python's does.
Slice(s, a, b) ==
    LET hi == IF b < 0 THEN Max(Len(s) + b, 0) ELSE Min(b, Len(s))
    IN  IF a >= hi THEN << >> ELSE SubSeq(s, a + 1, hi)

\* s.find(c, from): the least index >= from holding c, or -1.
Find(s, c, from) ==
    LET hits == {i \in from..(Len(s) - 1) : s[i + 1] = c}
    IN  IF hits = {} THEN -1 ELSE CHOOSE i \in hits : \A j \in hits : i <= j

\* The value of a string of decimal digits.
RECURSIVE DecVal(_)
DecVal(s) ==
    IF s = << >> THEN 0
    ELSE 10 * DecVal(SubSeq(s, 1, Len(s) - 1)) + DigitVal(s[Len(s)])

RECURSIVE OctVal(_)
OctVal(s) ==
    IF s = << >> THEN 0
    ELSE 8 * OctVal(SubSeq(s, 1, Len(s) - 1)) + DigitVal(s[Len(s)])

AllDigits(s) == \A i \in 1..Len(s) : s[i] \in Digits

\* int(s) accepts a non-empty run of decimal digits; anything else over the
\* alphabet of the model raises ValueError.
IntOk(s) == s # << >> /\ AllDigits(s)

\* ------------------------------------------------- eval("{%s}" % text)

\* text.split(sep)
RECURSIVE Split(_, _)
Split(s, sep) ==
    LET k == Find(s, sep, 0)
    IN  IF k = -1 THEN << s >>
        ELSE << Slice(s, 0, k) >> \o Split(Slice(s, k + 1, Len(s)), sep)

Count(s, c) == Cardinality({i \in 1..Len(s) : s[i] = c})

\* A Python 2 integer literal: decimal digits, octal when it starts with 0.
IsIntLit(s) ==
    /\ IntOk(s)
    /\ (Len(s) > 1 /\ s[1] = "0") => \A i \in 1..Len(s) : DigitVal(s[i]) < 8

IntLitVal(s) == IF Len(s) > 1 /\ s[1] = "0" THEN OctVal(s) ELSE DecVal(s)

\* A float literal of the alphabet: digits with one point and a digit.
IsFloatLit(s) ==
    /\ Count(s, ".") = 1
    /\ Len(s) > 1
    /\ \A i \in 1..Len(s) : s[i] \in Digits \cup {"."}

IsNumLit(s) == IsIntLit(s) \/ IsFloatLit(s)

\* A number is kept exactly, as <<mantissa, decimals>> without trailing
\* zero decimals: 1.50 and 1.5 are the same float, 2 == 2.0 as in Python.
RECURSIVE Norm(_, _)
Norm(m, f) == IF f > 0 /\ m % 10 = 0 THEN Norm(m \div 10, f - 1) ELSE << m, f >>

\* The variant that counts the point among the decimals.
NumLitValShifted(s) ==
    IF IsIntLit(s) THEN << IntLitVal(s), 0 >>
    ELSE LET p == Find(s, ".", 0)
         IN  Norm(DecVal(Slice(s, 0, p) \o Slice(s, p + 1, Len(s))), Len(s) - p)

NumLitVal(s) ==
    IF IsIntLit(s) THEN << IntLitVal(s), 0 >>
    ELSE LET p == Find(s, ".", 0)
         IN  Norm(DecVal(Slice(s, 0, p) \o Slice(s, p + 1, Len(s))), Len(s) - p - 1)

\* The entries of a display: a trailing comma is allowed after an entry.
Pieces(text) ==
    LET ps == Split(text, ",")
    IN  IF Len(ps) > 1 /\ ps[Len(ps)] = << >> THEN SubSeq(ps, 1, Len(ps) - 1) ELSE ps

PieceKey(p) == Slice(p, 0, Find(p, ":", 0))

PieceVal(p) == Slice(p, Find(p, ":", 0) + 1, Len(p))

IsPair(p) == Count(p, ":") = 1 /\ IsNumLit(PieceKey(p)) /\ IsNumLit(PieceVal(p))

\* What eval makes of "{text}": "dict" for a display of int: number pairs,
\* "SyntaxError" for text Python rejects, "other" for the Python values
\* outside the model (a set display, a float key).
EvalKind(text) ==
    LET ps == Pieces(text)
    IN  IF text = << >> THEN "dict"
        ELSE IF \A i \in 1..Len(ps) : IsPair(ps[i])
             THEN IF \A i \in 1..Len(ps) : IsIntLit(PieceKey(ps[i]))
                  THEN "dict" ELSE "other"
        ELSE IF \A i \in 1..Len(ps) : IsNumLit(ps[i]) THEN "other"
        ELSE "SyntaxError"

\* The dict of a display: a repeated key keeps its last value.  An entry
\* is [h |-> the number, w |-> 0]; w counts the tuples collect() wraps
\* around it (see Collect).
EvalDict(text) ==
    LET ps == Pieces(text)
        key(i) == IntLitVal(PieceKey(ps[i]))
        last(k) == CHOOSE i \in 1..Len(ps) :
                      key(i) = k /\ \A j \in 1..Len(ps) : key(j) = k => j <= i
    IN  IF text = << >> THEN << >>
        ELSE [k \in {key(i) : i \in 1..Len(ps)} |->
                 [h |-> NumLitVal(PieceVal(ps[last(k)])), w |-> 0]]

\* ---------------------------------------------------------- _parse_newick

\* The key items['trunk'] is stored under; int() never yields it.
TrunkKey == -1

\* d[k] = v on a dict d.
Put(d, k, v) == [x \in DOMAIN d \cup {k} |-> IF x = k THEN v ELSE d[x]]

\* The keys of a dict in iteration order.
RECURSIVE SortedKeys(_)
SortedKeys(S) ==
    IF S = {} THEN << >>
    ELSE LET m == CHOOSE x \in S : \A y \in S : x <= y
         IN  << m >> \o SortedKeys(S \ {m})

\* current_level after the first n characters.
LevelAfter(s, n) ==
    Cardinality({i \in 1..n : s[i] = "("}) - Cardinality({i \in 1..n : s[i] = ")"})

\* "Find maximum level": the greatest current_level, at least 0.
MaxLevelOf(s) ==
    LET ls == {LevelAfter(s, n) : n \in 0..Len(s)}
    IN  CHOOSE m \in ls : \A l \in ls : l <= m

\* The scan of one level, from index i on: start is the last '(' that
\* raised current_level to level, a ')' met at that level closes the pair.
RECURSIVE ScanFrom(_, _, _, _, _, _)
ScanFrom(s, lvl, i, cur, start, acc) ==
    IF i >= Len(s) THEN acc
    ELSE LET c == s[i + 1]
         IN  IF c = "("
             THEN ScanFrom(s, lvl, i + 1, cur + 1,
                           IF cur + 1 = lvl THEN i ELSE start, acc)
             ELSE IF c = ")"
             THEN ScanFrom(s, lvl, i + 1, cur - 1, start,
                           IF cur = lvl THEN Append(acc, << start, i >>) ELSE acc)
             ELSE ScanFrom(s, lvl, i + 1, cur, start, acc)

ScanPairs(s, lvl) == ScanFrom(s, lvl, 0, 0, -1, << >>)

\* The pairs taken left to right, as scanned.
ProcessingOrderForward(ps) == ps

\* pairs[::-1], the order in which the pairs of a level are processed.
ProcessingOrder(ps) == [i \in 1..Len(ps) |-> ps[Len(ps) + 1 - i]]

\* string[end + 1:colon] with colon = string.find(":", end)
BranchIdText(s, end) == Slice(s, end + 1, Find(s, ":", end))

\* string[:start] + string[end:], which leaves the ")" behind.
ExciseKeepClose(s, start, end) == Slice(s, 0, start) \o Slice(s, end, Len(s))

\* string[:start] + string[end + 1:]
Excise(s, start, end) == Slice(s, 0, start) \o Slice(s, end + 1, Len(s))

\* One pass of the body of "for pair in pairs[::-1]".
ProcessPair(its, s, pair) ==
    LET start == pair[1]
        end   == pair[2]
        txt   == BranchIdText(s, end)
        body  == Slice(s, start + 1, end)
        bid   == IF txt = << >> THEN TrunkKey ELSE DecVal(txt)
    IN  IF txt # << >> /\ ~IntOk(txt)
        THEN [err |-> "ValueError", items |-> its, string |-> s]
        ELSE IF EvalKind(body) # "dict"
        THEN [err |-> EvalKind(body), items |-> its, string |-> s]
        ELSE [err |-> "none", items |-> Put(its, bid, EvalDict(body)),
              string |-> Excise(s, start, end)]

\* collect(d) for d = items[k], at the given depth of nested calls.  An
\* entry whose key is in items becomes (items[key], entry): the first
\* component is always the dict stored under the entry's own key, so the
\* entry is kept as its number h and the count w of tuples around it.
RECURSIVE CollectLoop(_, _, _, _)
CollectLoop(its, k, todo, depth) ==
    IF todo = << >> THEN [err |-> "none", items |-> its]
    ELSE LET item == Head(todo)
         IN  IF item \notin DOMAIN its
             THEN CollectLoop(its, k, Tail(todo), depth)
             ELSE IF depth + 1 > RecursionLimit
             THEN [err |-> "RuntimeError", items |-> its]
             ELSE LET r == CollectLoop(its, item, SortedKeys(DOMAIN its[item]), depth + 1)
                  IN  IF r.err # "none" THEN r
                      ELSE CollectLoop(
                               [r.items EXCEPT ![k][item].w = @ + 1],
                               k, Tail(todo), depth)

\* collect(items['trunk']); the lookup raises KeyError without a trunk.
Collect(its) ==
    IF TrunkKey \notin DOMAIN its THEN [err |-> "KeyError", items |-> its]
    ELSE CollectLoop(its, TrunkKey, SortedKeys(DOMAIN its[TrunkKey]), 1)

\* ------------------------------------------------------ label aggregation

RECURSIVE Prod(_)
Prod(shape) == IF shape = << >> THEN 1 ELSE Head(shape) * Prod(Tail(shape))

\* Row k of np.indices(shape).reshape(ndim, prod).transpose(): axis a of
\* the k-th element in C order (the last axis varies fastest).
Unravel(k, shape) ==
    [a \in 1..Len(shape) |->
        (k \div Prod(SubSeq(shape, a + 1, Len(shape)))) % shape[a]]

Indices(shape) == [k \in 1..Prod(shape) |-> Unravel(k - 1, shape)]

\* The variant that inserts at the front.
PrependTo(tbl, idx, v) ==
    Put(tbl, idx, IF idx \in DOMAIN tbl THEN << v >> \o tbl[idx] ELSE << v >>)

\* flux_by_node[idx].append(v), or flux_by_node[idx] = [v] on KeyError
AppendTo(tbl, idx, v) ==
    Put(tbl, idx, IF idx \in DOMAIN tbl THEN Append(tbl[idx], v) ELSE << v >>)

\* The loop "for coord in indices" over the coordinates cs.
RECURSIVE Aggregate(_, _, _, _)
Aggregate(cs, index_map, data, acc) ==
    IF cs = << >> THEN acc
    ELSE LET coord == Head(cs)
             idx   == index_map[coord]
         IN  Aggregate(Tail(cs), index_map, data,
                 IF idx # 0
                 THEN [flux    |-> AppendTo(acc.flux, idx, data[coord]),
                       indices |-> AppendTo(acc.indices, idx, coord)]
                 ELSE acc)

\* --------------------------------------------------------- _construct_tree

\* A Structure has no merge height and no cached level until one is set.
NoHeight == << >>

NoLevel == << >>

\* Structure(indices, values, children=..., idx=...): the object oid.
Structure(node_indices, f, children, idx, oid) ==
    [idx |-> idx, indices |-> node_indices, values |-> f, children |-> children,
     mergeHeight |-> NoHeight, level |-> NoLevel, oid |-> oid]

\* A branch built without pixels of its own.
BranchIndicesNone(node_indices) == << >>

\* The pixels a branch is built with.
BranchIndices(node_indices) == node_indices

BranchValues(f) == f

\* tbl.get(idx, []): an identity without pixels gets none.
LookupOrEmpty(tbl, idx) == IF idx \in DOMAIN tbl THEN << tbl[idx] >> ELSE << << >> >>

\* tbl[idx] as << value >>, or << >> when the lookup raises KeyError.
Lookup(tbl, idx) == IF idx \in DOMAIN tbl THEN << tbl[idx] >> ELSE << >>

\* d.nodes_dict[i.idx] = i for i in nodes (nodes_dict maps to the object).
RECURSIVE Register(_, _)
Register(nd, nodes) ==
    IF nodes = << >> THEN nd
    ELSE Register(Put(nd, Head(nodes).idx, Head(nodes).oid), Tail(nodes))

\* _construct_tree(items[k]): the loop over the identities todo.  st holds
\* the nodes built so far in this call, d.nodes_dict and the next oid.
RECURSIVE ConstructLoop(_, _, _, _, _, _)
ConstructLoop(its, k, todo, ibn, fbn, st) ==
    IF todo = << >> THEN st
    ELSE LET idx == Head(todo)
             node_indices == Lookup(ibn, idx)
             f == Lookup(fbn, idx)
         IN  IF node_indices = << >> \/ f = << >> THEN [st EXCEPT !.err = "KeyError"]
             ELSE IF its[k][idx].w >= 1
             THEN LET sub == ConstructLoop(its, idx, SortedKeys(DOMAIN its[idx]),
                                 ibn, fbn, [st EXCEPT !.nodes = << >>])
                      b   == Structure(BranchIndices(node_indices[1]), BranchValues(f[1]),
                                       sub.nodes, idx, sub.next)
                  IN  IF sub.err # "none" THEN [sub EXCEPT !.nodes = st.nodes]
                      ELSE IF its[idx] = << >>
                      THEN [err |-> "StopIteration", nodes |-> st.nodes,
                            nodes_dict |-> Register(sub.nodes_dict, sub.nodes),
                            next |-> sub.next + 1]
                      ELSE ConstructLoop(its, k, Tail(todo), ibn, fbn,
                               [err |-> "none", nodes |-> Append(st.nodes, b),
                                nodes_dict |-> Put(Register(sub.nodes_dict, sub.nodes),
                                                   idx, b.oid),
                                next |-> sub.next + 1])
             ELSE LET l == Structure(node_indices[1], f[1], << >>, idx, st.next)
                  IN  ConstructLoop(its, k, Tail(todo), ibn, fbn,
                          [err |-> "none", nodes |-> Append(st.nodes, l),
                           nodes_dict |-> Put(st.nodes_dict, idx, l.oid),
                           next |-> st.next + 1])

\* d.trunk = _construct_tree(items['trunk'])
ConstructTree(its, ibn, fbn) ==
    ConstructLoop(its, TrunkKey, SortedKeys(DOMAIN its[TrunkKey]), ibn, fbn,
        [err |-> "none", nodes |-> << >>, nodes_dict |-> << >>, next |-> 1])

\* "for node in d.trunk: node._level = 0"
CacheLevels(nodes) == [i \in 1..Len(nodes) |-> [nodes[i] EXCEPT !.level = << 0 >>]]

\* ------------------------------------------------- to_newick (the export)

RECURSIVE DecText(_)
DecText(n) ==
    IF n < 10 THEN << DigitChar(n) >> ELSE DecText(n \div 10) \o << DigitChar(n % 10) >>

RECURSIVE Pow10(_)
Pow10(f) == IF f = 0 THEN 1 ELSE 10 * Pow10(f - 1)

RECURSIVE PadText(_, _)
PadText(n, width) ==
    IF width = 0 THEN << >>
    ELSE PadText(n \div 10, width - 1) \o << DigitChar(n % 10) >>

\* A height written as a float literal with at least one decimal.
HeightText(h) ==
    IF h[2] = 0 THEN DecText(h[1]) \o << ".", "0" >>
    ELSE DecText(h[1] \div Pow10(h[2])) \o << "." >> \o PadText(h[1] % Pow10(h[2]), h[2])

RECURSIVE Join(_, _)
Join(texts, sep) ==
    IF texts = << >> THEN << >>
    ELSE IF Len(texts) = 1 THEN texts[1]
    ELSE texts[1] \o sep \o Join(Tail(texts), sep)

\* What follows the ")" of a group: the section 4.2 grammar writes
\* "(entries):identity", the parser reads "(entries)identity".
GroupMark(fmt) == IF fmt = "grammar" THEN << ":" >> ELSE << >>

\* The entries of the nodes, whose heights are those of their entries in
\* the dict items[k] they were built from.
RECURSIVE NodesText(_, _, _, _)
NodesText(fmt, nodes, its, k) ==
    Join([i \in 1..Len(nodes) |->
            LET n   == nodes[i]
                own == DecText(n.idx) \o << ":" >> \o HeightText(its[k][n.idx].h)
            IN  IF n.children = << >> THEN own
                ELSE << "(" >> \o NodesText(fmt, n.children, its, n.idx) \o << ")" >>
                     \o GroupMark(fmt) \o own],
         << "," >>)

ToNewick(fmt, trunk, its) ==
    << "(" >> \o NodesText(fmt, trunk, its, TrunkKey) \o << ")", ":" >>

\* ------------------------------------------------------------------ inputs

Ids == 1..MaxId

HeightLits == << << "0", ".", "5" >>, << "1", ".", "0" >>, << "1", ".", "5" >>,
                 << "2", ".", "0" >>, << "4", ".", "0" >> >>

\* The height literal written for identity i at nesting depth dep.
HeightLit(i, dep) == HeightLits[((i + 2 * dep) % Len(HeightLits)) + 1]

LeafEntry(i, dep) == DecText(i) \o << ":" >> \o HeightLit(i, dep)

GroupEntry(fmt, i, body, dep) ==
    << "(" >> \o body \o << ")" >> \o GroupMark(fmt) \o LeafEntry(i, dep)

Pair(a, b) == a \o << "," >> \o b

\* Entry lists of leaves only, written at depth dep.  The second of two
\* takes another height, so that a repeated identity repeats with a
\* different height.
Leaves(dep) == {LeafEntry(i, dep) : i \in Ids}

LeafLists(dep) ==
    Leaves(dep) \cup {Pair(a, b) : a \in Leaves(dep), b \in Leaves(dep + 1)}

\* One group of leaves.
Groups1(fmt, dep) == {GroupEntry(fmt, i, b, dep) : i \in Ids, b \in LeafLists(dep + 1)}

SmallGroups1(fmt, dep) == {GroupEntry(fmt, i, b, dep) : i \in Ids, b \in Leaves(dep + 1)}

\* Entry lists with groups of leaves: a group, a group beside a leaf, two
\* sibling groups.
Lists1(fmt, dep) ==
    Groups1(fmt, dep)
      \cup {Pair(g, l) : g \in Groups1(fmt, dep), l \in Leaves(dep)}
      \cup {Pair(l, g) : g \in Groups1(fmt, dep), l \in Leaves(dep)}
      \cup {Pair(g, h) : g, h \in SmallGroups1(fmt, dep)}

\* A group of such a list: three levels of parentheses with the trunk's.
Groups2(fmt, dep) == {GroupEntry(fmt, i, b, dep) : i \in Ids, b \in Lists1(fmt, dep + 1)}

Document(body) == << "(" >> \o body \o << ")", ":" >>

\* Topology strings as the parser reads them.
ParserTopologies ==
    {Document(b) : b \in LeafLists(1) \cup Lists1("parser", 1) \cup Groups2("parser", 1)}

\* Topology strings in the grammar of section 4.2.
GrammarTopologies == {Document(b) : b \in Lists1("grammar", 1)}

\* Strings with one parenthesis missing, or one opening parenthesis too
\* many in front of an entry.
DeleteAt(s, i) == SubSeq(s, 1, i - 1) \o SubSeq(s, i + 1, Len(s))

InsertOpenAt(s, i) == SubSeq(s, 1, i - 1) \o << "(" >> \o SubSeq(s, i, Len(s))

EntryStart(s, i) == i = 1 \/ s[i - 1] \in {"(", ","}

Damaged(s) ==
    {DeleteAt(s, i) : i \in {j \in 1..Len(s) : s[j] \in {"(", ")"}}}
      \cup {InsertOpenAt(s, i) : i \in {j \in 1..Len(s) : EntryStart(s, j)}}

SmallTopologies == {Document(b) : b \in LeafLists(1) \cup SmallGroups1("parser", 1)}

DamagedTopologies == UNION {Damaged(s) : s \in SmallTopologies}

\* The strings of the concrete scenarios.
ScenarioA == << "(", "1", ":", "2", ".", "0", ",", "2", ":", "3", ".", "0", ")", ":" >>

ScenarioB == << "(", "(", "1", ":", "1", ".", "0", ",", "2", ":", "1", ".", "5", ")",
                ":", "3", ":", "4", ".", "0", ")", ":" >>

\* Malformed strings: an empty group, a group without identity before the
\* next entry, a document ended by ";".
EmptyGroup == << "(", "(", ")", "1", ":", "1", ".", "0", ")", ":" >>

NoIdentity == << "(", "(", "1", ":", "1", ".", "0", ")", ",", "2", ":", "1", ".", "5", ")", ":" >>

Semicolon == << "(", "(", "1", ":", "1", ".", "0", ")", "2", ":", "1", ".", "5", ")", ";" >>

\* Scenario B with the identity directly behind the closing parenthesis.
ScenarioBParser == << "(", "(", "1", ":", "1", ".", "0", ",", "2", ":", "1", ".", "5", ")",
                      "3", ":", "4", ".", "0", ")", ":" >>

\* An n-dimensional array is a function of the coordinate tuples.
Coords(shape) == {Indices(shape)[k] : k \in 1..Prod(shape)}

\* The flat position of a coordinate in C order.
Flat(shape, coord) == CHOOSE k \in 0..(Prod(shape) - 1) : Unravel(k, shape) = coord

\* The data array of a file: distinct values.
DataOf(shape) == [c \in Coords(shape) |-> 10 * (Flat(shape, c) + 1) + 5]

Line(labels) == [c \in Coords(<< Len(labels) >>) |-> labels[c[1] + 1]]

File(newick, shape, index_map) ==
    [newick |-> newick, shape |-> shape, index_map |-> index_map, data |-> DataOf(shape)]

GridShape == << 2, 2 >>

\* Every identity owns a pixel.
FullLabels == [c \in Coords(GridShape) |-> (Flat(GridShape, c) % MaxId) + 1]

Files ==
    {File(t, GridShape, FullLabels) :
        t \in ParserTopologies \cup GrammarTopologies \cup DamagedTopologies
                 \cup {EmptyGroup, NoIdentity, Semicolon}}
      \cup {File(t, GridShape, m) : t \in SmallTopologies, m \in [Coords(GridShape) -> 0..MaxId]}
      \cup {File(ScenarioA, << 6 >>, Line(<< 1, 1, 0, 2, 2, 2 >>)),
            File(ScenarioB, << 4 >>, Line(<< 1, 1, 2, 2 >>)),
            File(ScenarioBParser, << 4 >>, Line(<< 1, 1, 2, 2 >>)),
            File(ScenarioBParser, << 5 >>, Line(<< 1, 1, 2, 2, 3 >>))}

\* ------------------------------------------------------------------- state

VARIABLES
    h5f,             \* the HDF5 file: newick, index_map, data (and their shape)
    pc,              \* where dendro_import_hdf5 / _parse_newick stands
    d,               \* << >>, or << the Dendrogram being built >>
    flux_by_node,
    indices_by_node,
    string,          \* the working string of _parse_newick
    items,
    max_level,
    level,
    pairs,
    err,             \* the exception that ended the import, or "none"
    returned,        \* << >>, or << the Dendrogram the caller received >>
    exported         \* what the file holds: "input", or the format of the export

vars == << h5f, pc, d, flux_by_node, indices_by_node, string, items, max_level,
           level, pairs, err, returned, exported >>

parseVars == << string, items, max_level, level, pairs >>

Init ==
    /\ h5f \in Files
    /\ pc = "closed"
    /\ d = << >>
    /\ flux_by_node = << >>
    /\ indices_by_node = << >>
    /\ string = << >>
    /\ items = << >>
    /\ max_level = 0
    /\ level = 0
    /\ pairs = << >>
    /\ err = "none"
    /\ returned = << >>
    /\ exported = [fmt |-> "input", trunk |-> << >>, items |-> << >>]

\* Lines 119-127: open the file, make the Dendrogram and the two dicts.
Open ==
    /\ pc = "closed"
    /\ d' = << [n_dim |-> Len(h5f.shape), data |-> h5f.data, index_map |-> h5f.index_map,
                nodes_dict |-> << >>, trunk |-> << >>] >>
    /\ flux_by_node' = << >>
    /\ indices_by_node' = << >>
    /\ pc' = "aggregate"
    /\ UNCHANGED << h5f, parseVars, err, returned, exported >>

\* Lines 160-171: group the labelled pixels by identity.
AggregateLabels ==
    /\ pc = "aggregate"
    /\ LET acc == Aggregate(Indices(h5f.shape), d[1].index_map, d[1].data,
                            [flux |-> << >>, indices |-> << >>])
       IN  /\ flux_by_node' = acc.flux
           /\ indices_by_node' = acc.indices
    /\ pc' = "parse"
    /\ UNCHANGED << h5f, d, parseVars, err, returned, exported >>

\* After a level: the next one, or Phase 2 after level 1.
AfterLevel(l) == IF l >= 1 THEN "scan" ELSE "collect"

\* Lines 29-39: _parse_newick starts on the file's string.
FindMaxLevel ==
    /\ pc = "parse"
    /\ string' = h5f.newick
    /\ items' = << >>
    /\ max_level' = MaxLevelOf(h5f.newick)
    /\ level' = MaxLevelOf(h5f.newick)
    /\ pairs' = << >>
    /\ pc' = AfterLevel(MaxLevelOf(h5f.newick))
    /\ UNCHANGED << h5f, d, flux_by_node, indices_by_node, err, returned, exported >>

\* Lines 44-55: the pairs of the level.
ScanLevel ==
    /\ pc = "scan"
    /\ LET ps == ProcessingOrder(ScanPairs(string, level))
       IN  /\ pairs' = ps
           /\ IF ps = << >>
              THEN level' = level - 1 /\ pc' = AfterLevel(level - 1)
              ELSE level' = level /\ pc' = "pairs"
    /\ UNCHANGED << h5f, d, flux_by_node, indices_by_node, string, items, max_level,
                    err, returned, exported >>

\* Lines 57-74: the next pair of pairs[::-1].
ProcessNextPair ==
    /\ pc = "pairs"
    /\ LET r == ProcessPair(items, string, Head(pairs))
       IN  IF r.err # "none"
           THEN /\ err' = r.err
                /\ pc' = "failed"
                /\ UNCHANGED << string, items, level, pairs >>
           ELSE /\ items' = r.items
                /\ string' = r.string
                /\ pairs' = Tail(pairs)
                /\ IF Tail(pairs) = << >>
                   THEN level' = level - 1 /\ pc' = AfterLevel(level - 1)
                   ELSE level' = level /\ pc' = "pairs"
                /\ err' = err
    /\ UNCHANGED << h5f, d, flux_by_node, indices_by_node, max_level, returned, exported >>

\* Lines 76-87: Phase 2, and the return of items['trunk'].
CollectTrunk ==
    /\ pc = "collect"
    /\ LET r == Collect(items)
       IN  /\ items' = r.items
           /\ err' = r.err
           /\ pc' = IF r.err = "none" THEN "construct" ELSE "failed"
    /\ UNCHANGED << h5f, d, flux_by_node, indices_by_node, string, max_level, level,
                    pairs, returned, exported >>

\* Line 173: d.trunk = _construct_tree(...), registering nodes on the way.
Construct ==
    /\ pc = "construct"
    /\ LET r == ConstructTree(items, indices_by_node, flux_by_node)
       IN  /\ d' = << [d[1] EXCEPT !.nodes_dict = r.nodes_dict,
                                  !.trunk = IF r.err = "none" THEN r.nodes ELSE << >>] >>
           /\ err' = r.err
           /\ pc' = IF r.err = "none" THEN "finish" ELSE "failed"
    /\ UNCHANGED << h5f, flux_by_node, indices_by_node, parseVars, returned, exported >>

\* Lines 176-179: cache the trunk's levels and return d.
Finish ==
    /\ pc = "finish"
    /\ d' = << [d[1] EXCEPT !.trunk = CacheLevels(@)] >>
    /\ returned' = d'
    /\ pc' = "done"
    /\ UNCHANGED << h5f, flux_by_node, indices_by_node, parseVars, err, exported >>

\* Lines 92-111: export the Dendrogram just imported, once, and read the
\* file again.  exported keeps what was exported.
Export ==
    /\ pc = "done"
    /\ exported.fmt = "input"
    /\ \E fmt \in {"grammar", "parser"} :
          /\ h5f' = [h5f EXCEPT !.newick = ToNewick(fmt, returned[1].trunk, items),
                                !.index_map = returned[1].index_map,
                                !.data = returned[1].data]
          /\ exported' = [fmt |-> fmt, trunk |-> returned[1].trunk, items |-> items]
    /\ returned' = << >>
    /\ d' = << >>
    /\ pc' = "closed"
    /\ UNCHANGED << flux_by_node, indices_by_node, parseVars, err >>

Next ==
    \/ Open
    \/ AggregateLabels
    \/ FindMaxLevel
    \/ ScanLevel
    \/ ProcessNextPair
    \/ CollectTrunk
    \/ Construct
    \/ Finish
    \/ Export

Spec == Init /\ [][Next]_vars

\* ------------------------------------------------------------- properties

\* The nodes of a forest, at every depth.
RECURSIVE NodesOf(_)
NodesOf(nodes) ==
    UNION {{nodes[i]} \cup NodesOf(nodes[i].children) : i \in 1..Len(nodes)}

IsBranch(n) == n.children # << >>

IsLeaf(n) == n.children = << >>

Ended == pc \in {"done", "failed"}

\* The import of the file as given, before any export.
FirstImport == exported.fmt = "input"

\* Every "(" has its ")" and no ")" comes first.
Balanced(s) ==
    /\ LevelAfter(s, Len(s)) = 0
    /\ \A n \in 0..Len(s) : LevelAfter(s, n) >= 0

\* What a tree is compared by: identities, parent/child structure, the
\* heights of the entries in the decoded topology, and the pixels.
RECURSIVE TreeView(_, _, _)
TreeView(nodes, its, k) ==
    [i \in 1..Len(nodes) |->
        [idx |-> nodes[i].idx, height |-> its[k][nodes[i].idx].h,
         indices |-> nodes[i].indices, values |-> nodes[i].values,
         mergeHeight |-> nodes[i].mergeHeight,
         children |-> TreeView(nodes[i].children, its, nodes[i].idx)]]

RoundTrip(fmt) ==
    (exported.fmt = fmt /\ Ended) =>
        /\ pc = "done"
        /\ TreeView(returned[1].trunk, items, TrunkKey)
             = TreeView(exported.trunk, exported.items, TrunkKey)

FileB == File(ScenarioB, << 4 >>, Line(<< 1, 1, 2, 2 >>))

FileBParser == File(ScenarioBParser, << 5 >>, Line(<< 1, 1, 2, 2, 3 >>))

\* One root, the branch 3, over the leaves 1 (pixels 0, 1) and 2 (pixels 2, 3).
BranchThreeOverOneAndTwo(trunk) ==
    /\ Len(trunk) = 1
    /\ trunk[1].idx = 3
    /\ Len(trunk[1].children) = 2
    /\ \E i, j \in 1..2 :
          /\ trunk[1].children[i].idx = 1
          /\ trunk[1].children[i].children = << >>
          /\ trunk[1].children[i].indices = << << 0 >>, << 1 >> >>
          /\ trunk[1].children[j].idx = 2
          /\ trunk[1].children[j].children = << >>
          /\ trunk[1].children[j].indices = << << 2 >>, << 3 >> >>

TreeIds(trunk) == {n.idx : n \in NodesOf(trunk)}

\* C3: a positive label that is the identity of no entry of the decoded
\* topology makes the import fail; it never completes with labelled pixels
\* that belong to no node.
C3_UnknownLabelFails ==
    pc = "done" =>
        \A c \in DOMAIN returned[1].index_map :
            returned[1].index_map[c] > 0 =>
                returned[1].index_map[c] \in TreeIds(returned[1].trunk)

\* C4: on a topology string with unbalanced parentheses _parse_newick
\* returns no mapping, so nothing is constructed.
C4_UnbalancedFails ==
    ~Balanced(h5f.newick) => pc \notin {"construct", "finish", "done"}

OwnsLabel(ixs, index_map, v) ==
    /\ {ixs[i] : i \in 1..Len(ixs)} = {c \in DOMAIN index_map : index_map[c] = v}
    /\ \A i, j \in 1..Len(ixs) : ixs[i] = ixs[j] => i = j

\* values[i] is the data at indices[i].
Parallel(n, data) ==
    /\ Len(n.values) = Len(n.indices)
    /\ \A i \in 1..Len(n.indices) : n.values[i] = data[n.indices[i]]

RECURSIVE BranchHeightsKept(_, _, _)
BranchHeightsKept(nodes, its, k) ==
    \A i \in 1..Len(nodes) :
        its[k][nodes[i].idx].w >= 1 =>
            /\ nodes[i].mergeHeight = its[k][nodes[i].idx].h
            /\ BranchHeightsKept(nodes[i].children, its, nodes[i].idx)

\* C6: the node built for a branch entry (subMapping, height) has that
\* height as its mergeHeight.
C6_BranchHeightKept ==
    pc = "done" => BranchHeightsKept(returned[1].trunk, items, TrunkKey)

\* The identities of the nested representation under items[k].
RECURSIVE ReprIds(_, _)
ReprIds(its, k) ==
    DOMAIN its[k]
      \cup UNION {ReprIds(its, x) : x \in {y \in DOMAIN its[k] : its[k][y].w >= 1}}

\* C7: an identity of the nested representation without a labelled pixel
\* makes the import fail, and a failed import returns nothing: the import
\* goes on past _construct_tree only when every identity has pixels, and
\* the caller holds a Dendrogram only after a completed import.
C7_MissingPixelsFail ==
    /\ pc \in {"finish", "done"} =>
          \A x \in ReprIds(items, TrunkKey) : x \in DOMAIN indices_by_node
    /\ returned # << >> => pc = "done" /\ err = "none"
    /\ pc = "failed" => returned = << >>

\* _construct_tree failed on an identity without pixels after it had
\* registered nodes, and nothing was returned.
C7_Witness ==
    /\ pc = "failed"
    /\ err = "KeyError"
    /\ TrunkKey \in DOMAIN items
    /\ d[1].nodes_dict # << >>
    /\ returned = << >>

\* a precedes b in row-major order (the first axis is the slowest).
RowMajorLess(a, b) ==
    \E x \in 1..Len(a) : a[x] < b[x] /\ \A y \in 1..(x - 1) : a[y] = b[y]

FileA == File(ScenarioA, << 6 >>, Line(<< 1, 1, 0, 2, 2, 2 >>))

\* C8: in a returned Dendrogram a leaf of identity v owns exactly the
\* coordinates labelled v, each once, in row-major order, with the data
\* values at those coordinates in the same order; no node owns a coordinate
\* labelled 0; and "(1:2.0,2:3.0):" with labels [1,1,0,2,2,2] gives two root
\* leaves, 1 owning [0,1] and 2 owning [3,4,5].
C8_LeafPixels ==
    /\ returned # << >> =>
          \A n \in NodesOf(returned[1].trunk) :
              /\ \A i \in 1..Len(n.indices) : returned[1].index_map[n.indices[i]] # 0
              /\ IsLeaf(n) =>
                    /\ OwnsLabel(n.indices, returned[1].index_map, n.idx)
                    /\ \A i, j \in 1..Len(n.indices) :
                          i < j => RowMajorLess(n.indices[i], n.indices[j])
                    /\ Parallel(n, returned[1].data)
    /\ (h5f = FileA /\ FirstImport /\ Ended) =>
          /\ pc = "done"
          /\ Len(returned[1].trunk) = 2
          /\ \E i, j \in 1..2 :
                /\ returned[1].trunk[i].idx = 1
                /\ returned[1].trunk[i].children = << >>
                /\ returned[1].trunk[i].indices = << << 0 >>, << 1 >> >>
                /\ returned[1].trunk[j].idx = 2
                /\ returned[1].trunk[j].children = << >>
                /\ returned[1].trunk[j].indices = << << 3 >>, << 4 >>, << 5 >> >>

\* A returned leaf on a two-dimensional grid owns pixels of both rows, and a
\* pixel is unlabelled.
C8_Witness ==
    /\ returned # << >>
    /\ Len(h5f.shape) = 2
    /\ \E c \in DOMAIN returned[1].index_map : returned[1].index_map[c] = 0
    /\ \E n \in NodesOf(returned[1].trunk) :
          /\ IsLeaf(n)
          /\ Len(n.indices) = 2
          /\ n.indices[1][1] # n.indices[2][1]
          /\ n.indices[1][2] # n.indices[2][2]

\* s[a] = "(" and s[b] = ")" are one pair of parentheses (0-based).
Matching(s, a, b) ==
    /\ 0 <= a /\ a < b /\ b < Len(s)
    /\ s[a + 1] = "("
    /\ s[b + 1] = ")"
    /\ LevelAfter(s, b + 1) = LevelAfter(s, a)
    /\ \A n \in (a + 1)..b : LevelAfter(s, n) > LevelAfter(s, a)

\* C9: on a balanced string, every pair of the level still to be processed
\* addresses a matching "(" and ")" of the working string at that depth, and
\* once a level is processed the working string has no parenthesis at that
\* depth or deeper.
C9_OffsetsStayValid ==
    Balanced(h5f.newick) =>
        /\ pc = "pairs" =>
              \A i \in 1..Len(pairs) :
                  /\ Matching(string, pairs[i][1], pairs[i][2])
                  /\ LevelAfter(string, pairs[i][1] + 1) = level
        /\ pc \in {"scan", "collect"} => MaxLevelOf(string) <= level

\* The left one of two sibling groups is about to be processed after the
\* right one was excised.
C9_Witness ==
    /\ Balanced(h5f.newick)
    /\ pc = "pairs"
    /\ Len(ScanPairs(h5f.newick, level)) = 2
    /\ Len(pairs) = 1

\* C10: Phase 2 always returns: collect never runs into the recursion limit.
C10_CollectReturns == ~(pc = "failed" /\ err = "RuntimeError")

====
